---- MODULE Spec2Model ----
(***************************************************************************)
(* Content-fingerprint index of angeless/videomaker.                       *)
(*                                                                         *)
(* The repository holds three implementations of the same index:           *)
(*   "vfs"      VideoFingerprintSystem     (fingerprint_system.py)         *)
(*   "demo"     FingerprintSystem          (fingerprint_demo.py)           *)
(*   "improved" ImprovedFingerprintSystem  (improved_fingerprint.py)       *)
(* The variable impl selects one of them for a whole behaviour.            *)
(*                                                                         *)
(* The store is an SQLite file.  Every method opens its own connection;    *)
(* Python's sqlite3 module opens a transaction before the first INSERT of  *)
(* a connection, the transaction holds the database's single write lock    *)
(* until commit or until the connection is closed or reclaimed; a         *)
(* connection that goes away without commit rolls back.  Readers see       *)
(* committed rows only.                                                    *)
(*                                                                         *)
(* SHA-256 is modelled as collision free: a digest is its input, tagged;   *)
(* a hex prefix of a digest identifies the digest.                         *)
(***************************************************************************)
EXTENDS Integers, Sequences, FiniteSets, TLC

(* ------------------------------ bounds --------------------------------- *)
NumPaths == 3
NumWorkers == 2
MaxOps == 4
MaxConcOps == 3
MaxMtime == 2
Window == 1
MaxSize == 3

Paths == 1..NumPaths
Workers == 1..NumWorkers
Mtimes == 1..MaxMtime

(* File contents: byte strings.  The first two differ in a sampled byte. *)
Contents == {<<1, 1>>, <<1, 2>>}

NoFile == [bytes |-> <<>>, mtime |-> 0]
Files == [bytes : Contents, mtime : Mtimes]

(* Longer files, of which the hashes sample only some bytes: the two contents
   differ in a byte that neither implementation reads. *)
LongContents == {<<1, 1, 1, 1, 1, 1, 1>>, <<1, 2, 1, 1, 1, 1, 1>>}
LongFiles == [bytes : LongContents, mtime : {1}]

(* Tags and tag queries are strings: sequences of characters.  TagLists are
   the search_tags lists a caller passes to update_content_index. *)
TagLists == {<<>>, << <<"a">> >>, << <<"b">> >>, << <<"a">>, <<"A", "b">> >>,
             << <<"a">>, <<"b">> >>}
Queries == {<<"a">>, <<"A">>, <<"b">>, <<",">>}

(* Results are tuples: <<>> for None, <<e>> for a raised exception e, and a
   fingerprint string is the tuple of its two or three hex parts. *)
None == <<>>
NoTx == "NoTx"
NoFingerprint == [fingerprint |-> <<>>, content_hash |-> <<>>, tech_hash |-> <<>>]

VARIABLES
    impl,            \* which implementation the behaviour runs
    fs,              \* the filesystem: path -> file, or NoFile
    fingerprints,    \* committed rows of table fingerprints
    file_locations,  \* committed rows of table file_locations
    content_index,   \* committed rows of table content_index
    lock,            \* worker whose connection holds the write lock, 0 if free
    pc,              \* per worker: position inside index_video
    arg,             \* per worker: [path, analyze_content] of the running call
    fp,              \* per worker: result of generate_fingerprint
    existing,        \* per worker: result of the lookup for an existing record
    tx,              \* per worker: tables as seen by its open write transaction
    ret,             \* per worker: what the last call returned or raised
    pre,             \* per worker: committed tables when the call started
    last,            \* per worker: the call before the current one
    analyzerLog,     \* every Content Analyzer invocation, in order
    ops,             \* calls and filesystem changes the behaviour may still make
    search_index,    \* committed rows of table search_index (fingerprint_system.py)
    scan,            \* the running or last scan_directory call
    unreadable,      \* paths of files the process has no permission to read
    wf,              \* the WorkflowOrchestrator (video-editor/scripts/orchestrator.py)
    ffprobe          \* whether the ffprobe program is installed and runs

vars == <<impl, fs, fingerprints, file_locations, content_index, lock, pc, arg,
          fp, existing, tx, ret, pre, last, analyzerLog, ops, search_index,
          scan, unreadable, wf, ffprobe>>

(* the variables of the fingerprint index *)
indexVars == <<impl, fs, fingerprints, file_locations, content_index, lock, pc,
               arg, fp, existing, tx, ret, pre, last, analyzerLog, ops,
               search_index, scan, unreadable, ffprobe>>

(* --------------------------- fingerprinting ---------------------------- *)
Min(a, b) == IF a < b THEN a ELSE b
Max(a, b) == IF a > b THEN a ELSE b

(* f.seek(offset); f.read(n) *)
ReadAt(bytes, offset, n) ==
    SubSeq(bytes, offset + 1, Min(Len(bytes), offset + n))

Sha256(input) == <<"sha256", input>>
HexPrefix(digest, n) == <<digest, n>>

(* improved_fingerprint.py: size, head, two interior windows, tail *)
StableContentHash(file) ==
    LET b == file.bytes
        size == Len(b)
        header == ReadAt(b, 0, Window)
        middle1 == ReadAt(b, size \div 3, Window)
        middle2 == ReadAt(b, (size * 2) \div 3, Window)
        footer == ReadAt(b, Max(0, size - Window), Window)
    IN  Sha256(<<size>> \o header \o middle1 \o middle2 \o footer)

(* ffprobe is not available or finds no video stream: size-only fallback *)
StableTechHash(file) == Sha256(<<"size", Len(file.bytes)>>)

(* What ffprobe reports of a file comes from its container and stream data,
   anywhere in the file: the duration stands for it, and grows with the
   data. *)
RECURSIVE Duration(_)
Duration(bytes) ==
    IF bytes = <<>> THEN 0 ELSE Head(bytes) + Duration(Tail(bytes))

(* _stable_tech_hash when ffprobe runs: width, height and codec are the same
   for all files of the model, duration and size are the file's *)
StableTechHashProbed(file) ==
    Sha256(<<"1920x1080", "h264", Duration(file.bytes), Len(file.bytes)>>)

(* fingerprint_system.py / fingerprint_demo.py: head, middle, tail, size *)
HashFileContent(file) ==
    LET b == file.bytes
        size == Len(b)
        start == ReadAt(b, 0, Window)
        middle == ReadAt(b, size \div 2, Window)
        end == ReadAt(b, Max(0, size - Window), Window)
    IN  Sha256(start \o middle \o end \o <<size>>)

HashTechnicalFeatures(file) == Sha256(<<"size", Len(file.bytes)>>)

(* the "visual" hash is a digest of the modification time *)
HashVisualFeatures(file) == Sha256(<<"mtime", file.mtime>>)

(* generate_fingerprint: the fingerprint string and the hashes kept with it *)
GenerateFingerprint(i, file) ==
    IF i = "improved"
    THEN [fingerprint |-> <<HexPrefix(StableContentHash(file), 12),
                            HexPrefix(StableTechHash(file), 12)>>,
          content_hash |-> StableContentHash(file),
          tech_hash |-> StableTechHash(file)]
    ELSE [fingerprint |-> <<HexPrefix(HashFileContent(file), 8),
                            HexPrefix(HashTechnicalFeatures(file), 8),
                            HexPrefix(HashVisualFeatures(file), 8)>>,
          content_hash |-> <<>>,
          tech_hash |-> <<>>]

(* ------------------------------ the store ------------------------------ *)
(* The three tables as one record: what a connection reads or has written. *)
Committed ==
    [fingerprints |-> fingerprints,
     file_locations |-> file_locations,
     content_index |-> content_index]

EmptyStore ==
    [fingerprints |-> {}, file_locations |-> {}, content_index |-> {}]

(* A row of file_locations as the INSERT statements of index_video build it:
   the path string, then st_size and st_mtime of a fresh stat of the file. *)
LocationRow(f, p, file) ==
    [fingerprint |-> f, file_path |-> p,
     file_size |-> Len(file.bytes), last_modified |-> file.mtime]

(* fingerprint TEXT PRIMARY KEY *)
FingerprintKeyTaken(t, row) ==
    \E r \in t.fingerprints : r.fingerprint = row.fingerprint

(* file_path TEXT UNIQUE *)
PathTaken(t, p) == \E r \in t.file_locations : r.file_path = p

(* INSERT INTO fingerprints: the row is added; the caller has checked the key *)
(* an index_video that writes the Location without its fingerprints row *)
InsertFingerprintSkipped(t, row) == t

InsertFingerprint(t, row) ==
    [t EXCEPT !.fingerprints = @ \cup {row}]

(* INSERT OR IGNORE INTO fingerprints *)
InsertOrIgnoreFingerprint(t, row) ==
    IF FingerprintKeyTaken(t, row) THEN t ELSE InsertFingerprint(t, row)

(* file_locations without the UNIQUE constraint on file_path *)
LocationInsertAllowedNoUnique(t, row) == TRUE

(* INSERT INTO file_locations succeeds only when UNIQUE(file_path) allows it *)
LocationInsertAllowed(t, row) == ~PathTaken(t, row.file_path)

InsertLocation(t, row) ==
    [t EXCEPT !.file_locations = @ \cup {row}]

(* INSERT OR REPLACE INTO file_locations: the conflicting row is deleted *)
InsertOrReplaceLocation(t, row) ==
    [t EXCEPT !.file_locations =
        {r \in @ : r.file_path # row.file_path} \cup {row}]

(* fingerprint_demo.py analyze_video: the tags come from the file name; the
   analysis itself keeps the file name *)
NameTags(p) ==
    IF p = 1 THEN <<"action", "sports", "first_person">>
    ELSE IF p = 2 THEN <<"landscape", "aerial", "mountain">>
    ELSE <<>>

AnalyzeVideo(p) == [filename |-> p, tags |-> NameTags(p)]

ContentRow(f, analysis) ==
    [fingerprint |-> f, analysis_data |-> analysis,
     search_tags |-> analysis.tags]

ContentKeyTaken(t, f) == \E r \in t.content_index : r.fingerprint = f

InsertContentIndex(t, row) ==
    [t EXCEPT !.content_index = @ \cup {row}]

(* INSERT OR REPLACE INTO content_index: the row of the fingerprint, if there
   is one, is deleted and the new row is inserted *)
InsertOrReplaceContentIndex(ci, row) ==
    {r \in ci : r.fingerprint # row.fingerprint} \cup {row}

(* update_content_index, "for tag in tags": one search_index row per tag,
   each with weight 1.0 *)
SearchRows(f, tags) ==
    {[tag |-> tags[i], fingerprint |-> f, weight |-> 1] : i \in DOMAIN tags}

(* INSERT OR REPLACE INTO search_index, PRIMARY KEY (tag, fingerprint): rows
   with other keys stay as they are *)
InsertOrReplaceSearchIndex(si, rows) ==
    {r \in si : ~\E n \in rows : n.tag = r.tag /\ n.fingerprint = r.fingerprint}
    \cup rows

(* SELECT * FROM fingerprints WHERE fingerprint = ?  (get_fingerprint_info) *)
GetFingerprintInfo(t, f) ==
    IF \E r \in t.fingerprints : r.fingerprint = f THEN f ELSE None

(* SELECT fingerprint FROM fingerprints WHERE content_hash = ?; fetchone().
   The statement has no ORDER BY: any matching row may be the one fetched. *)
FindByContentHash(t, h) ==
    {r.fingerprint : r \in {x \in t.fingerprints : x.content_hash = h}}

(* location rows of a fingerprint, and its location_count *)
LocationsOf(t, f) == {r \in t.file_locations : r.fingerprint = f}
LocationCount(t, f) == Cardinality(LocationsOf(t, f))
BoundTo(t, p) == {r.fingerprint : r \in {x \in t.file_locations : x.file_path = p}}

(* ------------------------------ duplicates ----------------------------- *)
(* str(video_path): the path string stored in file_path, as the caller gave
   it: relative to the working directory.  The second path has the file name
   of the first, in a directory.  Sep stands for the three characters " | ",
   which a file name may contain. *)
Sep == " | "
PathName(p) ==
    IF p = 1 THEN <<"1">>
    ELSE IF p = 2 THEN <<"d", "/", "1">>
    ELSE IF p < NumPaths THEN <<ToString(p)>>
    ELSE <<ToString(p), Sep, "x">>

(* Path(...).name: what follows the last "/" *)
RECURSIVE BaseName(_)
BaseName(name) ==
    IF \E i \in DOMAIN name : name[i] = "/"
    THEN BaseName(Tail(name))
    ELSE name

(* str(Path(...).absolute()): the working directory is put in front of a
   path that does not start at the root *)
Absolute(name) ==
    IF name # <<>> /\ Head(name) = "/" THEN name ELSE <<"/", "cwd", "/">> \o name

(* GROUP_CONCAT(file_path, ' | '): the path strings of a group, joined *)
RECURSIVE GroupConcat(_)
GroupConcat(ps) ==
    IF ps = {} THEN <<>>
    ELSE LET p == CHOOSE x \in ps : \A y \in ps : x <= y
         IN  IF ps = {p} THEN PathName(p)
             ELSE PathName(p) \o <<Sep>> \o GroupConcat(ps \ {p})

(* row[3].split(" | ") *)
RECURSIVE SplitPaths(_)
SplitPaths(text) ==
    IF \E i \in DOMAIN text : text[i] = Sep
    THEN LET i == CHOOSE k \in DOMAIN text :
                      text[k] = Sep /\ \A j \in 1..(k - 1) : text[j] # Sep
         IN  <<SubSeq(text, 1, i - 1)>>
             \o SplitPaths(SubSeq(text, i + 1, Len(text)))
    ELSE <<text>>

(* find_duplicates: GROUP BY fingerprint (GROUP BY f.content_hash over the
   join with fingerprints in improved_fingerprint.py, where a content_hash
   belongs to one fingerprint) with more than one row *)
FindDuplicates(t) ==
    LET rows(f) == {l \in t.file_locations :
                       /\ l.fingerprint = f
                       /\ impl = "improved" =>
                              \E r \in t.fingerprints : r.fingerprint = f}
        keys == {l.fingerprint : l \in t.file_locations}
    IN  {[fingerprint |-> f,
          count |-> Cardinality(rows(f)),
          paths |-> SplitPaths(GroupConcat({l.file_path : l \in rows(f)}))] :
            f \in {k \in keys : Cardinality(rows(k)) > 1}}

(* Path(path).stat().st_size of a path string of the report: the size the
   file has now, <<>> when no file has that name *)
StatSize(name) ==
    IF \E p \in Paths : PathName(p) = name /\ fs[p] # NoFile
    THEN <<Len(fs[CHOOSE p \in Paths : PathName(p) = name].bytes)>>
    ELSE <<>>

RECURSIVE TotalSize(_)
TotalSize(names) ==
    IF names = <<>> THEN 0
    ELSE StatSize(Head(names))[1] + TotalSize(Tail(names))

(* get_duplicates_report, for one group:
   space_saved = total_size - (total_size / dup['count']), a float, kept here
   as the fraction <<numerator, denominator>>; stat raises on a missing file *)
SpaceSaved(dup) ==
    IF \E i \in DOMAIN dup.paths : StatSize(dup.paths[i]) = <<>>
    THEN <<"FileNotFoundError">>
    ELSE LET total_size == TotalSize(dup.paths)
         IN  <<total_size * dup.count - total_size, dup.count>>

(* ------------------------------- search -------------------------------- *)
(* SQLite's LIKE ignores the case of ASCII letters, and "_" in the pattern
   stands for any one character *)
Lower(c) == IF c = "A" THEN "a" ELSE IF c = "B" THEN "b" ELSE c
CharLike(c, q) == q = "_" \/ Lower(c) = Lower(q)

(* text LIKE '%q%' *)
Like(text, q) ==
    \E i \in 0..(Len(text) - Len(q)) :
        \A j \in 1..Len(q) : CharLike(text[i + j], q[j])

(* json.dumps of a list of strings: ["a", "b"] *)
RECURSIVE JsonItems(_)
JsonItems(tags) ==
    IF tags = <<>> THEN <<>>
    ELSE <<"\"">> \o Head(tags) \o <<"\"">>
         \o (IF Tail(tags) = <<>> THEN <<>> ELSE <<",", " ">>)
         \o JsonItems(Tail(tags))

JsonDumps(tags) == <<"[">> \o JsonItems(tags) \o <<"]">>

(* VideoFingerprintSystem.search_by_tag, the SELECT: search_index LEFT JOIN
   content_index WHERE si.tag LIKE ? OR ci.search_tags LIKE ?; one row per
   search_index entry *)
SearchRowsFor(q) ==
    {e \in search_index :
        \/ Like(e.tag, q)
        \/ \E c \in content_index :
               /\ c.fingerprint = e.fingerprint
               /\ Like(JsonDumps(c.search_tags), q)}

(* all orders of a set of rows *)
RECURSIVE Orders(_)
Orders(rows) ==
    IF rows = {} THEN {<<>>}
    ELSE UNION {{<<r>> \o o : o \in Orders(rows \ {r})} : r \in rows}

(* ORDER BY si.weight DESC *)
ByWeightDesc(o) ==
    \A i, j \in DOMAIN o : i < j => o[i].weight >= o[j].weight

(* search_by_tag: every list the call may return.  One result per selected
   row whose fingerprint get_fingerprint_info finds, in the order of the
   SELECT, with search_weight the weight of that row. *)
SearchByTag(q) ==
    LET found == {e \in SearchRowsFor(q) :
                     \E r \in fingerprints : r.fingerprint = e.fingerprint}
    IN  {[i \in DOMAIN o |->
             [fingerprint |-> o[i].fingerprint,
              search_weight |-> o[i].weight]] :
            o \in {x \in Orders(found) : ByWeightDesc(x)}}

(* --------------------------- lookup by path ---------------------------- *)
(* text LIKE '%q' *)
LikeSuffix(text, q) ==
    /\ Len(q) <= Len(text)
    /\ \A j \in 1..Len(q) : CharLike(text[Len(text) - Len(q) + j], q[j])

(* ImprovedFingerprintSystem.find_by_path: every fingerprint the call may
   give to get_fingerprint_info, or None.  The first SELECT compares the
   stored strings with the absolute form of the path; when it finds no row,
   the second one takes a row whose string ends like the file name.  Both
   use fetchone() with no ORDER BY: any selected row may be the one. *)
FindByPath(t, name) ==
    LET exact == {r \in t.file_locations :
                     PathName(r.file_path) = Absolute(name)}
        like == {r \in t.file_locations :
                    LikeSuffix(PathName(r.file_path), BaseName(name))}
    IN  IF exact # {} THEN {r.fingerprint : r \in exact}
        ELSE IF like # {} THEN {r.fingerprint : r \in like}
        ELSE {None}

(* ---------------------- unreadable files ------------------------------- *)
(* open() raises in _stable_content_hash: the except branch hashes
   "<name>_<size>" *)
StableContentHashFallback(p, file) ==
    Sha256(<<"name", BaseName(PathName(p)), Len(file.bytes)>>)

(* open() raises in _hash_file_content: the except branch hashes
   "<name>_<size>_<mtime>" *)
HashFileContentFallback(p, file) ==
    Sha256(<<"name", BaseName(PathName(p)), Len(file.bytes), file.mtime>>)

(* generate_fingerprint(video_path) on the file tree as it is: the hashes of
   the file's bytes when open() succeeds, the fallback hashes when not *)
GenerateFingerprintAt(i, p) ==
    IF p \notin unreadable
    THEN IF i = "improved" /\ ffprobe
         THEN [fingerprint |->
                   <<HexPrefix(StableContentHash(fs[p]), 12),
                     HexPrefix(StableTechHashProbed(fs[p]), 12)>>,
               content_hash |-> StableContentHash(fs[p]),
               tech_hash |-> StableTechHashProbed(fs[p])]
         ELSE GenerateFingerprint(i, fs[p])
    ELSE IF i = "improved"
         THEN [fingerprint |->
                   <<HexPrefix(StableContentHashFallback(p, fs[p]), 12),
                     HexPrefix(StableTechHash(fs[p]), 12)>>,
               content_hash |-> StableContentHashFallback(p, fs[p]),
               tech_hash |-> StableTechHash(fs[p])]
         ELSE [fingerprint |->
                   <<HexPrefix(HashFileContentFallback(p, fs[p]), 8),
                     HexPrefix(HashTechnicalFeatures(fs[p]), 8),
                     HexPrefix(HashVisualFeatures(fs[p]), 8)>>,
               content_hash |-> <<>>,
               tech_hash |-> <<>>]

(* ------------------------------ the calls ------------------------------ *)
Raised(e) == <<e>>
IsFingerprint(r) == Len(r) >= 2
NoCall == [path |-> 0, analyze |-> FALSE, file |-> NoFile, ret |-> None,
           pre |-> EmptyStore]
NoArg == [path |-> 0, analyze |-> FALSE, file |-> NoFile]
Idle(w) == pc[w] \in {"idle", "done"}

(* FingerprintScanner.__init__: scan_stats, and no scan made yet.  files is
   the list of video files a scan collected, current the number of files the
   loop has taken, outcome what became of each file taken, result what
   scan_directory returned or raised; before and errors_before are the Store
   and the error counter when the scan started. *)
NoScan ==
    [state |-> "none", files |-> <<>>, current |-> 0, outcome |-> <<>>,
     total_files |-> 0, processed |-> 0, skipped |-> 0, errors |-> 0,
     new_fingerprints |-> 0, existing_fingerprints |-> 0, result |-> None,
     before |-> EmptyStore, errors_before |-> 0]

(* no WorkflowOrchestrator has been made *)
NoWorkflow == [status |-> "none"]

InitWith(i, n, files, probe) ==
    /\ impl = i
    /\ fs \in [Paths -> files \cup {NoFile}]
    /\ fingerprints = {}
    /\ file_locations = {}
    /\ content_index = {}
    /\ lock = 0
    /\ pc = [w \in Workers |-> "idle"]
    /\ arg = [w \in Workers |-> NoArg]
    /\ fp = [w \in Workers |-> NoFingerprint]
    /\ existing = [w \in Workers |-> None]
    /\ tx = [w \in Workers |-> NoTx]
    /\ ret = [w \in Workers |-> None]
    /\ pre = [w \in Workers |-> EmptyStore]
    /\ last = [w \in Workers |-> NoCall]
    /\ analyzerLog = <<>>
    /\ ops = n
    /\ search_index = {}
    /\ scan = NoScan
    /\ unreadable = {}
    /\ wf = NoWorkflow
    /\ ffprobe = probe

(* the state after construction on a tree of short files, on a machine
   without ffprobe *)
InitFor(i, n) == InitWith(i, n, {f \in Files : f.mtime = 1}, FALSE)

(* The call ends with its connection committed or closed: an open
   transaction is rolled back, the write lock is released. *)
Finish(w, r) ==
    /\ pc' = [pc EXCEPT ![w] = "done"]
    /\ ret' = [ret EXCEPT ![w] = r]
    /\ tx' = [tx EXCEPT ![w] = NoTx]
    /\ lock' = IF lock = w THEN 0 ELSE lock

(* The call ends with a write transaction open on a connection that was
   neither committed nor closed (an exception left the method, or the method
   returned without conn.close()).  The connection object stays alive until
   the interpreter reclaims it, and until then it keeps the write lock. *)
Leaked == NumWorkers + 1

FinishLeaked(w, r) ==
    /\ pc' = [pc EXCEPT ![w] = "done"]
    /\ ret' = [ret EXCEPT ![w] = r]
    /\ tx' = [tx EXCEPT ![w] = NoTx]
    /\ lock' = Leaked

(* index_video, up to and including generate_fingerprint.  a is the
   analyze_content argument, which only VideoFingerprintSystem has.  With
   track, the call that ended before this one is remembered in last. *)
StartCall(w, p, a, track) ==
    /\ Idle(w)
    /\ impl # "vfs" => a
    /\ arg' = [arg EXCEPT ![w] = [path |-> p, analyze |-> a, file |-> fs[p]]]
    /\ last' = [last EXCEPT ![w] =
                  IF track /\ pc[w] = "done"
                  THEN [path |-> arg[w].path, analyze |-> arg[w].analyze,
                        file |-> arg[w].file, ret |-> ret[w],
                        pre |-> pre[w]]
                  ELSE NoCall]
    /\ pre' = [pre EXCEPT ![w] = Committed]
    /\ existing' = [existing EXCEPT ![w] = None]
    /\ IF fs[p] = NoFile
       THEN /\ Finish(w, None)
            /\ fp' = [fp EXCEPT ![w] = NoFingerprint]
       ELSE /\ fp' = [fp EXCEPT ![w] = GenerateFingerprintAt(impl, p)]
            /\ pc' = [pc EXCEPT ![w] = "check"]
            /\ UNCHANGED <<ret, tx, lock>>
    /\ UNCHANGED <<wf, ffprobe, impl, unreadable, search_index, fs, fingerprints, file_locations,
                   content_index, analyzerLog>>

(* index_video called by a caller of its own *)
Start(w, p, a, track) ==
    /\ ops > 0
    /\ ops' = ops - 1
    /\ StartCall(w, p, a, track)
    /\ UNCHANGED scan

(* "existing = ..." : a read on a connection of its own *)
CheckExisting(w) ==
    /\ pc[w] = "check"
    /\ IF impl = "improved"
       THEN \/ /\ FindByContentHash(Committed, fp[w].content_hash) = {}
               /\ existing' = [existing EXCEPT ![w] = None]
            \/ \E f \in FindByContentHash(Committed, fp[w].content_hash) :
                   existing' = [existing EXCEPT ![w] = f]
       ELSE existing' = [existing EXCEPT ![w] =
                            GetFingerprintInfo(Committed, fp[w].fingerprint)]
    /\ pc' = [pc EXCEPT ![w] = "write"]
    /\ UNCHANGED <<wf, ffprobe, impl, unreadable, search_index, scan, fs, fingerprints, file_locations, content_index, lock,
                   arg, fp, tx, ret, pre, last, analyzerLog, ops>>

(* The existing branch: INSERT INTO file_locations.  The IntegrityError of
   UNIQUE(file_path) is caught and the fingerprint is returned all the same. *)
AddFileLocation(w) ==
    /\ pc[w] = "write"
    /\ existing[w] # None
    /\ lock = 0
    /\ LET f == IF impl = "improved" THEN existing[w] ELSE fp[w].fingerprint
           row == LocationRow(f, arg[w].path, fs[arg[w].path])
       IN  IF LocationInsertAllowed(Committed, row)
           THEN /\ tx' = [tx EXCEPT ![w] = InsertLocation(Committed, row)]
                /\ lock' = w
                /\ pc' = [pc EXCEPT ![w] = "commit"]
                /\ UNCHANGED ret
           ELSE IF impl = "improved" THEN FinishLeaked(w, f) ELSE Finish(w, f)
    /\ UNCHANGED <<wf, ffprobe, impl, unreadable, search_index, scan, fs, fingerprints, file_locations, content_index, arg,
                   fp, existing, pre, last, analyzerLog, ops>>

(* The new branch of FingerprintSystem and ImprovedFingerprintSystem:
   INSERT INTO fingerprints, INSERT INTO file_locations.  No IntegrityError
   is caught here: it leaves index_video. *)
CreateRecord(w) ==
    /\ pc[w] = "write"
    /\ existing[w] = None
    /\ impl \in {"demo", "improved"}
    /\ lock = 0
    /\ LET frow == IF impl = "improved" THEN fp[w]
                   ELSE [fp[w] EXCEPT !.content_hash = <<>>, !.tech_hash = <<>>]
           lrow == LocationRow(fp[w].fingerprint, arg[w].path, fs[arg[w].path])
           t1 == InsertFingerprint(Committed, frow)
       IN  IF FingerprintKeyTaken(Committed, frow)
              \/ ~LocationInsertAllowed(t1, lrow)
           THEN FinishLeaked(w, Raised("IntegrityError"))
           ELSE /\ tx' = [tx EXCEPT ![w] = InsertLocation(t1, lrow)]
                /\ lock' = w
                /\ pc' = [pc EXCEPT ![w] =
                            IF impl = "demo" THEN "analyze" ELSE "commit"]
                /\ UNCHANGED ret
    /\ UNCHANGED <<wf, ffprobe, impl, unreadable, search_index, scan, fs, fingerprints, file_locations, content_index, arg,
                   fp, existing, pre, last, analyzerLog, ops>>

(* VideoFingerprintSystem.create_fingerprint_record, first half:
   INSERT OR IGNORE INTO fingerprints, INSERT OR REPLACE INTO file_locations *)
CreateFingerprintRecord(w) ==
    /\ pc[w] = "write"
    /\ existing[w] = None
    /\ impl = "vfs"
    /\ lock = 0
    /\ LET frow == fp[w]
           lrow == LocationRow(fp[w].fingerprint, arg[w].path, fs[arg[w].path])
       IN  tx' = [tx EXCEPT ![w] =
                    InsertOrReplaceLocation(
                        InsertOrIgnoreFingerprint(Committed, frow), lrow)]
    /\ lock' = w
    /\ pc' = [pc EXCEPT ![w] = IF arg[w].analyze THEN "analyze" ELSE "commit"]
    /\ UNCHANGED <<wf, ffprobe, impl, unreadable, search_index, scan, fs, fingerprints, file_locations, content_index, arg,
                   fp, existing, ret, pre, last, analyzerLog, ops>>

(* A write that finds the lock taken waits for sqlite3's timeout (5 s) and
   then raises OperationalError("database is locked"), which no handler of
   index_video catches. *)
DatabaseLocked(w) ==
    /\ pc[w] = "write"
    /\ lock \notin {0, w}
    /\ Finish(w, Raised("OperationalError"))
    /\ UNCHANGED <<wf, ffprobe, impl, unreadable, search_index, scan, fs, fingerprints, file_locations, content_index, arg,
                   fp, existing, pre, last, analyzerLog, ops>>

(* FingerprintSystem: analyze_video, then INSERT INTO content_index, inside
   the transaction that holds the two rows already inserted *)
AnalyzeDemo(w) ==
    /\ pc[w] = "analyze"
    /\ impl = "demo"
    /\ analyzerLog' = Append(analyzerLog,
                             [path |-> arg[w].path, file |-> arg[w].file])
    /\ LET row == ContentRow(fp[w].fingerprint, AnalyzeVideo(arg[w].path))
       IN  IF ContentKeyTaken(tx[w], row.fingerprint)
           THEN FinishLeaked(w, Raised("IntegrityError"))
           ELSE /\ tx' = [tx EXCEPT ![w] = InsertContentIndex(tx[w], row)]
                /\ pc' = [pc EXCEPT ![w] = "commit"]
                /\ UNCHANGED <<ret, lock>>
    /\ UNCHANGED <<wf, ffprobe, impl, unreadable, search_index, scan, fs, fingerprints, file_locations, content_index, arg,
                   fp, existing, pre, last, ops>>

(* update_content_index: a second connection writes content_index and
   search_index and commits on its own.  It can write only while no other
   connection holds the write lock. *)
UpdateContentIndexAllowed(holder) == holder = 0

(* VideoFingerprintSystem.create_fingerprint_record, second half:
   analyze_video_content, then update_content_index on its second
   connection, while the first one still holds the lock. *)
AnalyzeVfs(w) ==
    /\ pc[w] = "analyze"
    /\ impl = "vfs"
    /\ analyzerLog' = Append(analyzerLog,
                             [path |-> arg[w].path, file |-> arg[w].file])
    /\ IF UpdateContentIndexAllowed(lock)
       THEN /\ content_index' =
                   InsertOrReplaceContentIndex(content_index,
                       ContentRow(fp[w].fingerprint, AnalyzeVideo(arg[w].path)))
            /\ search_index' =
                   InsertOrReplaceSearchIndex(search_index,
                       SearchRows(fp[w].fingerprint,
                                  AnalyzeVideo(arg[w].path).tags))
            /\ pc' = [pc EXCEPT ![w] = "commit"]
            /\ UNCHANGED <<ret, tx, lock>>
       ELSE /\ FinishLeaked(w, Raised("OperationalError"))
            /\ UNCHANGED <<content_index, search_index>>
    /\ UNCHANGED <<wf, ffprobe, impl, unreadable, scan, fs, fingerprints, file_locations, arg,
                   fp, existing, pre, last, ops>>

(* analyze_video_content raises (the analyzer stats the file and indexes
   into its own results; nothing in create_fingerprint_record or index_video
   catches an exception): the call ends with the exception. *)
AnalyzerFails(w) ==
    /\ pc[w] = "analyze"
    /\ impl = "vfs"
    /\ analyzerLog' = Append(analyzerLog,
                             [path |-> arg[w].path, file |-> arg[w].file])
    /\ FinishLeaked(w, Raised("AnalysisFailure"))
    /\ UNCHANGED <<wf, ffprobe, impl, unreadable, search_index, scan, fs, fingerprints, file_locations,
                   content_index, arg, fp, existing, pre, last, ops>>

(* update_content_index called on its own, between index_video calls: one
   connection, one transaction, committed at the end. *)
UpdateContentIndex(f, tags) ==
    /\ \A w \in Workers : pc[w] \in {"idle", "done"}
    /\ UpdateContentIndexAllowed(lock)
    /\ ops > 0
    /\ ops' = ops - 1
    /\ content_index' =
           InsertOrReplaceContentIndex(content_index,
               ContentRow(f, [filename |-> 0, tags |-> tags]))
    /\ search_index' = InsertOrReplaceSearchIndex(search_index, SearchRows(f, tags))
    /\ UNCHANGED <<wf, ffprobe, impl, unreadable, scan, fs, fingerprints, file_locations, lock, pc, arg,
                   fp, existing, tx, ret, pre, last, analyzerLog>>

(* conn.commit(); return fingerprint *)
Commit(w) ==
    /\ pc[w] = "commit"
    /\ fingerprints' = tx[w].fingerprints
    /\ file_locations' = tx[w].file_locations
    /\ content_index' = tx[w].content_index
    /\ Finish(w, IF impl = "improved" /\ existing[w] # None
                 THEN existing[w] ELSE fp[w].fingerprint)
    /\ UNCHANGED <<wf, ffprobe, impl, unreadable, search_index, scan, fs, arg, fp, existing, pre, last, analyzerLog, ops>>

(* The interpreter reclaims a connection that was left open: its transaction
   is rolled back and the write lock is free again. *)
CollectGarbage ==
    /\ lock = Leaked
    /\ lock' = 0
    /\ UNCHANGED <<wf, ffprobe, impl, unreadable, search_index, scan, fs, fingerprints, file_locations,
                   content_index, pc, arg, fp, existing, tx, ret, pre, last,
                   analyzerLog, ops>>

(* ---------------------------- the file system -------------------------- *)
AllIdle == \A w \in Workers : Idle(w)

(* a file is created, overwritten or touched between two calls *)
WriteFile(p, file) ==
    /\ AllIdle
    /\ ops > 0
    /\ file # fs[p]
    /\ fs' = [fs EXCEPT ![p] = file]
    /\ ops' = ops - 1
    /\ UNCHANGED <<wf, ffprobe, impl, unreadable, search_index, scan, fingerprints, file_locations, content_index, lock, pc,
                   arg, fp, existing, tx, ret, pre, last, analyzerLog>>

(* a file is renamed or moved: bytes, mtime and mode go with it *)
RenameFile(p, q) ==
    /\ AllIdle
    /\ ops > 0
    /\ p # q
    /\ fs[p] # NoFile
    /\ fs[q] = NoFile
    /\ fs' = [fs EXCEPT ![q] = fs[p], ![p] = NoFile]
    /\ ops' = ops - 1
    /\ unreadable' = IF p \in unreadable
                     THEN (unreadable \ {p}) \cup {q}
                     ELSE unreadable
    /\ UNCHANGED <<wf, ffprobe, impl, search_index, scan, fingerprints, file_locations, content_index, lock, pc,
                   arg, fp, existing, tx, ret, pre, last, analyzerLog>>

Environment ==
    \/ \E p \in Paths, file \in Files : WriteFile(p, file)
    \/ \E p, q \in Paths : RenameFile(p, q)

(* a file is overwritten by a longer one between two calls *)
GrowFile(p) ==
    /\ AllIdle
    /\ ops > 0
    /\ fs[p] # NoFile
    /\ Len(fs[p].bytes) < MaxSize
    /\ fs' = [fs EXCEPT ![p] = [bytes |-> Append(fs[p].bytes, 1),
                                mtime |-> fs[p].mtime]]
    /\ ops' = ops - 1
    /\ UNCHANGED <<wf, ffprobe, impl, unreadable, search_index, scan, fingerprints, file_locations,
                   content_index, lock, pc, arg, fp, existing, tx, ret, pre,
                   last, analyzerLog>>

(* the mode of a file is changed between two calls: the process loses or
   regains the permission to read it (stat still works) *)
Chmod(p) ==
    /\ AllIdle
    /\ ops > 0
    /\ fs[p] # NoFile
    /\ unreadable' = IF p \in unreadable
                     THEN unreadable \ {p}
                     ELSE unreadable \cup {p}
    /\ ops' = ops - 1
    /\ UNCHANGED <<wf, ffprobe, impl, search_index, scan, fs, fingerprints, file_locations,
                   content_index, lock, pc, arg, fp, existing, tx, ret, pre,
                   last, analyzerLog>>

(* ImprovedFingerprintSystem, one caller: a call starts only after the one
   before has returned. *)
StepImproved(w) ==
    \/ CheckExisting(w)
    \/ AddFileLocation(w)
    \/ CreateRecord(w)
    \/ Commit(w)
    \/ DatabaseLocked(w)

NextImproved ==
    \/ \E p \in Paths : Start(1, p, TRUE, FALSE)
    \/ StepImproved(1)
    \/ Environment
    \/ CollectGarbage

SpecImproved == InitFor("improved", MaxOps) /\ [][NextImproved]_vars

(* FingerprintSystem, one caller *)
StepDemo(w) ==
    \/ CheckExisting(w)
    \/ AddFileLocation(w)
    \/ CreateRecord(w)
    \/ AnalyzeDemo(w)
    \/ Commit(w)
    \/ DatabaseLocked(w)

NextDemo ==
    \/ \E p \in Paths : Start(1, p, TRUE, FALSE)
    \/ StepDemo(1)
    \/ Environment
    \/ CollectGarbage

SpecDemo == InitFor("demo", MaxOps) /\ [][NextDemo]_vars

(* VideoFingerprintSystem, one caller *)
StepVfs(w) ==
    \/ CheckExisting(w)
    \/ AddFileLocation(w)
    \/ CreateFingerprintRecord(w)
    \/ AnalyzeVfs(w)
    \/ Commit(w)
    \/ DatabaseLocked(w)

NextVfs ==
    \/ \E p \in Paths, a \in BOOLEAN : Start(1, p, a, FALSE)
    \/ StepVfs(1)
    \/ Environment
    \/ CollectGarbage

SpecVfs == InitFor("vfs", MaxOps) /\ [][NextVfs]_vars

(* Concurrent callers on one store: every worker is a thread or process
   running index_video; steps of different workers interleave freely. *)
NextConcImproved ==
    \/ \E w \in Workers, p \in Paths : Start(w, p, TRUE, FALSE)
    \/ \E w \in Workers : StepImproved(w)
    \/ Environment
    \/ CollectGarbage

ConcImproved == InitFor("improved", MaxConcOps) /\ [][NextConcImproved]_vars

NextConcDemo ==
    \/ \E w \in Workers, p \in Paths : Start(w, p, TRUE, FALSE)
    \/ \E w \in Workers : StepDemo(w)
    \/ Environment
    \/ CollectGarbage

ConcDemo == InitFor("demo", MaxConcOps) /\ [][NextConcDemo]_vars

NextConcVfs ==
    \/ \E w \in Workers, p \in Paths, a \in BOOLEAN : Start(w, p, a, FALSE)
    \/ \E w \in Workers : StepVfs(w)
    \/ Environment
    \/ CollectGarbage

ConcVfs == InitFor("vfs", MaxConcOps) /\ [][NextConcVfs]_vars

(* The store of any of the three implementations under concurrent callers *)
Implementations == {"improved", "demo", "vfs"}

InitStore == \E i \in Implementations : InitFor(i, MaxConcOps)

NextConcStore ==
    \/ \E w \in Workers, p \in Paths, a \in BOOLEAN : Start(w, p, a, FALSE)
    \/ \E w \in Workers : CheckExisting(w)
    \/ \E w \in Workers : AddFileLocation(w)
    \/ \E w \in Workers : CreateRecord(w)
    \/ \E w \in Workers : CreateFingerprintRecord(w)
    \/ \E w \in Workers : AnalyzeDemo(w)
    \/ \E w \in Workers : AnalyzeVfs(w)
    \/ \E w \in Workers : Commit(w)
    \/ \E w \in Workers : DatabaseLocked(w)
    \/ Environment
    \/ CollectGarbage

ConcStore == InitStore /\ [][NextConcStore]_vars

(* ImprovedFingerprintSystem under concurrent callers on a machine with
   ffprobe, on a tree of files long enough to have bytes that
   _stable_content_hash does not read *)
NextProbeImproved ==
    \/ \E w \in Workers, p \in Paths : Start(w, p, TRUE, FALSE)
    \/ \E w \in Workers : StepImproved(w)
    \/ Environment
    \/ CollectGarbage

ProbeImproved ==
    InitWith("improved", MaxConcOps, LongFiles, TRUE)
        /\ [][NextProbeImproved]_vars

(* One caller whose consecutive calls are compared: the call that ended
   before the current one is kept in last. *)
NextTwiceImproved ==
    \/ \E p \in Paths : Start(1, p, TRUE, TRUE)
    \/ StepImproved(1)
    \/ Environment
    \/ CollectGarbage

TwiceImproved == InitFor("improved", MaxOps) /\ [][NextTwiceImproved]_vars

NextTwiceDemo ==
    \/ \E p \in Paths : Start(1, p, TRUE, TRUE)
    \/ StepDemo(1)
    \/ Environment
    \/ CollectGarbage

TwiceDemo == InitFor("demo", MaxOps) /\ [][NextTwiceDemo]_vars

(* ImprovedFingerprintSystem, one caller, who reads find_duplicates and the
   duplicates report in between; files may also grow. *)
NextReportImproved ==
    \/ \E p \in Paths : Start(1, p, TRUE, FALSE)
    \/ StepImproved(1)
    \/ Environment
    \/ \E p \in Paths : GrowFile(p)
    \/ CollectGarbage

ReportImproved == InitFor("improved", MaxOps) /\ [][NextReportImproved]_vars

(* VideoFingerprintSystem, one caller, with an analyzer that may fail *)
NextFailVfs ==
    \/ \E p \in Paths, a \in BOOLEAN : Start(1, p, a, FALSE)
    \/ StepVfs(1)
    \/ AnalyzerFails(1)
    \/ Environment
    \/ CollectGarbage

FailVfs == InitFor("vfs", MaxConcOps) /\ [][NextFailVfs]_vars

(* VideoFingerprintSystem, one caller who indexes files and then sets the
   tags of indexed fingerprints with update_content_index *)
NextTagVfs ==
    \/ \E p \in Paths, a \in BOOLEAN : Start(1, p, a, FALSE)
    \/ StepVfs(1)
    \/ \E r \in fingerprints, tags \in TagLists :
           UpdateContentIndex(r.fingerprint, tags)
    \/ CollectGarbage

TagVfs == InitFor("vfs", MaxOps) /\ [][NextTagVfs]_vars

(* generate_fingerprint over a file tree in which files are readable or not:
   ImprovedFingerprintSystem, two callers *)
NextGenImproved ==
    \/ NextConcImproved
    \/ \E p \in Paths : Chmod(p)

GenImproved == InitFor("improved", MaxConcOps) /\ [][NextGenImproved]_vars

(* ImprovedFingerprintSystem, one caller, consecutive calls on files that are
   long enough to have bytes outside the sampled windows *)
NextChangeImproved ==
    \/ \E p \in Paths : Start(1, p, TRUE, TRUE)
    \/ StepImproved(1)
    \/ \E p \in Paths, file \in LongFiles : WriteFile(p, file)
    \/ CollectGarbage

ChangeImproved == InitFor("improved", MaxOps) /\ [][NextChangeImproved]_vars

NextChangeVfs ==
    \/ \E p \in Paths : Start(1, p, FALSE, TRUE)
    \/ StepVfs(1)
    \/ \E p \in Paths, file \in LongFiles : WriteFile(p, file)
    \/ CollectGarbage

ChangeVfs == InitFor("vfs", MaxOps) /\ [][NextChangeVfs]_vars

(* --------------------------- directory scans --------------------------- *)
(* FingerprintScanner._process_video skips a file of less than 1024 bytes;
   SmallFile is that threshold on the scale of the model's file sizes. *)
SmallFile == 3

(* directory.rglob: the video files of the tree *)
VideoFiles == {p \in Paths : fs[p] # NoFile}

(* what became of one file of the scan *)
Outcome(k, r) == [kind |-> k, ret |-> r]

(* the for loop ends after the last file: scan_directory returns *)
ScanEnd(s) ==
    IF Len(s.outcome) = Len(s.files) THEN [s EXCEPT !.state = "done"] ELSE s

(* scan_directory, up to the for loop: the files are collected, in the order
   the file system lists them, and total_files is set.
   FingerprintScanner.scan_directory returns at once when there is none. *)
ScanDirectory(order) ==
    /\ AllIdle
    /\ scan.state # "running"
    /\ ops > 0
    /\ ops' = ops - 1
    /\ scan' = [scan EXCEPT
                  !.state = IF order = <<>> THEN "done" ELSE "running",
                  !.files = order,
                  !.current = 0,
                  !.outcome = <<>>,
                  !.total_files = IF impl = "vfs" THEN @ ELSE Len(order),
                  !.result = None,
                  !.before = Committed,
                  !.errors_before = scan.errors]
    /\ UNCHANGED <<wf, ffprobe, impl, unreadable, fs, fingerprints, file_locations, content_index,
                   search_index, lock, pc, arg, fp, existing, tx, ret, pre,
                   last, analyzerLog>>

(* the loop takes the next file.  FingerprintScanner._process_video stats it
   and skips a small file; otherwise, and always in
   VideoFingerprintSystem.scan_directory, index_video is called. *)
ProcessVideo ==
    /\ scan.state = "running"
    /\ scan.current = Len(scan.outcome)
    /\ LET p == scan.files[scan.current + 1] IN
       IF impl # "vfs" /\ Len(fs[p].bytes) < SmallFile
       THEN /\ scan' = ScanEnd([scan EXCEPT
                                   !.current = @ + 1,
                                   !.skipped = @ + 1,
                                   !.outcome = Append(@, Outcome("skipped", None))])
            /\ UNCHANGED <<wf, ffprobe, impl, unreadable, fs, fingerprints, file_locations,
                           content_index, search_index, lock, pc, arg, fp,
                           existing, tx, ret, pre, last, analyzerLog>>
       ELSE /\ StartCall(1, p, TRUE, FALSE)
            /\ scan' = [scan EXCEPT !.current = @ + 1]
    /\ UNCHANGED ops

(* index_video has returned or raised.  FingerprintScanner: the exception is
   caught by scan_directory and counted; a returned fingerprint counts as new
   when get_fingerprint_info gives location_count 1, and the file is
   processed.  VideoFingerprintSystem.scan_directory has no try: the
   exception leaves the scan; a returned fingerprint is appended to the
   list. *)
ProcessedVideo ==
    /\ scan.state = "running"
    /\ scan.current = Len(scan.outcome) + 1
    /\ pc[1] = "done"
    /\ LET r == ret[1]
           n == LocationCount(Committed, r)
       IN  scan' =
             IF Len(r) = 1
             THEN IF impl = "vfs"
                  THEN [scan EXCEPT !.state = "aborted",
                                    !.result = r,
                                    !.outcome = Append(@, Outcome("error", r))]
                  ELSE ScanEnd([scan EXCEPT
                                  !.errors = @ + 1,
                                  !.outcome = Append(@, Outcome("error", r))])
             ELSE IF impl = "vfs"
                  THEN ScanEnd([scan EXCEPT
                                  !.result = IF r # None THEN Append(@, r) ELSE @,
                                  !.outcome = Append(@, Outcome("indexed", r))])
                  ELSE ScanEnd([scan EXCEPT
                                  !.new_fingerprints =
                                      IF r # None /\ n = 1 THEN @ + 1 ELSE @,
                                  !.existing_fingerprints =
                                      IF r # None /\ n # 1 THEN @ + 1 ELSE @,
                                  !.processed = @ + 1,
                                  !.outcome = Append(@, Outcome("indexed", r))])
    /\ UNCHANGED <<wf, ffprobe, impl, unreadable, fs, fingerprints, file_locations, content_index,
                   search_index, lock, pc, arg, fp, existing, tx, ret, pre,
                   last, analyzerLog, ops>>

(* FingerprintScanner over ImprovedFingerprintSystem: files are indexed and
   changed, and the tree is scanned; nothing else runs during a scan *)
NextScanImproved ==
    \/ scan.state # "running" /\ \E p \in Paths : Start(1, p, TRUE, FALSE)
    \/ StepImproved(1)
    \/ scan.state # "running" /\ Environment
    \/ scan.state # "running" /\ \E p \in Paths : GrowFile(p)
    \/ \E order \in Orders(VideoFiles) : ScanDirectory(order)
    \/ ProcessVideo
    \/ ProcessedVideo
    \/ CollectGarbage

ScanImproved == InitFor("improved", MaxOps) /\ [][NextScanImproved]_vars

(* VideoFingerprintSystem.scan_directory *)
NextScanVfs ==
    \/ scan.state # "running"
          /\ \E p \in Paths, a \in BOOLEAN : Start(1, p, a, FALSE)
    \/ StepVfs(1)
    \/ scan.state # "running" /\ Environment
    \/ \E order \in Orders(VideoFiles) : ScanDirectory(order)
    \/ ProcessVideo
    \/ ProcessedVideo
    \/ CollectGarbage

ScanVfs == InitFor("vfs", MaxConcOps) /\ [][NextScanVfs]_vars

(* FingerprintScanner over a tree in which some files cannot be read *)
NextScanUnreadable ==
    \/ scan.state # "running" /\ \E p \in Paths : Start(1, p, TRUE, FALSE)
    \/ StepImproved(1)
    \/ scan.state # "running" /\ \E p \in Paths : GrowFile(p)
    \/ scan.state # "running" /\ \E p \in Paths : Chmod(p)
    \/ \E order \in Orders(VideoFiles) : ScanDirectory(order)
    \/ ProcessVideo
    \/ ProcessedVideo
    \/ CollectGarbage

ScanUnreadable == InitFor("improved", MaxOps) /\ [][NextScanUnreadable]_vars

(* ------------------------ workflow orchestrator ------------------------ *)
(* video-editor/scripts/orchestrator.py.  The three checkpoints, in the
   order of run_full_workflow's list. *)
Stages == <<"PLANNING", "MATERIAL", "RENDER">>
StageSet == {Stages[i] : i \in DOMAIN Stages}
Strategies == {"conservative", "aggressive"}

(* what user_input_func may return, after strip().upper(): the three
   recognised answers, and one that is none of them *)
Answers == {"Y", "N", "M", "?"}

(* a stage callback's output, as far as a decision depends on it: whether
   coverage_rate is below 0.5 *)
Outputs == {"low", "high"}

(* Checkpoint.default_action, as __init__ sets it *)
DefaultAction(strategy, stage) ==
    IF stage = "PLANNING"
    THEN IF strategy = "conservative" THEN "modify" ELSE "approve"
    ELSE IF stage = "MATERIAL" THEN "modify"
    ELSE "approve"

(* _auto_decision *)
AutoDecision(strategy, stage, output) ==
    IF stage = "MATERIAL" /\ output = "low" /\ strategy = "conservative"
    THEN "modify"
    ELSE DefaultAction(strategy, stage)

(* _get_user_decision_with_timeout, the answer that was read *)
AnswerDecision(strategy, stage, answer) ==
    IF answer = "Y" THEN "approve"
    ELSE IF answer = "N" THEN "reject"
    ELSE IF answer = "M" THEN "modify"
    ELSE DefaultAction(strategy, stage)

NoDecision == [decision |-> "none", timeout_used |-> FALSE]

(* WorkflowOrchestrator.__init__ and WorkflowState.  interactive says whether
   run_full_workflow got a user_input_func; at is the position inside
   run_full_workflow and run_stage; alarm is the pending SIGALRM; answered
   says that user_input_func has returned in the current run_stage;
   returned is the decision the last run_stage gave back to the loop. *)
NewWorkflow(strategy) ==
    [status |-> "new",
     default_strategy |-> strategy,
     interactive |-> FALSE,
     current_stage |-> "PLANNING",
     stage_history |-> <<>>,
     user_decisions |-> [s \in StageSet |-> NoDecision],
     artifacts |-> {},
     at |-> "none",
     stage_output |-> "high",
     answer |-> "Y",
     answered |-> FALSE,
     decision |-> "none",
     returned |-> "none",
     alarm |-> FALSE,
     error |-> "none"]

(* The def of run_stage is annotated "-> Tuple[Decision, Dict]" and Tuple is
   not imported: an interpreter that evaluates annotations when the def is
   executed raises NameError while the module is loaded, one that evaluates
   them lazily loads it. *)
ImportFailed == [NewWorkflow("conservative") EXCEPT !.status = "aborted",
                                                   !.error = "NameError"]

InitWorkflow ==
    /\ wf \in {NewWorkflow(s) : s \in Strategies} \cup {ImportFailed}
    /\ impl = "improved"
    /\ fs = [p \in Paths |-> NoFile]
    /\ fingerprints = {}
    /\ file_locations = {}
    /\ content_index = {}
    /\ lock = 0
    /\ pc = [w \in Workers |-> "idle"]
    /\ arg = [w \in Workers |-> NoArg]
    /\ fp = [w \in Workers |-> NoFingerprint]
    /\ existing = [w \in Workers |-> None]
    /\ tx = [w \in Workers |-> NoTx]
    /\ ret = [w \in Workers |-> None]
    /\ pre = [w \in Workers |-> EmptyStore]
    /\ last = [w \in Workers |-> NoCall]
    /\ analyzerLog = <<>>
    /\ ops = 0
    /\ search_index = {}
    /\ scan = NoScan
    /\ unreadable = {}
    /\ ffprobe = FALSE

(* run_full_workflow is called, with or without a user_input_func, and
   enters its loop with the first stage *)
RunFullWorkflow(interactive) ==
    /\ wf.status = "new"
    /\ wf' = [wf EXCEPT !.status = "running",
                        !.interactive = interactive,
                        !.current_stage = Stages[1],
                        !.at = "run_stage"]
    /\ UNCHANGED indexVars

(* run_stage, up to the decision: the stage callback gives its output; in
   automatic mode _auto_decision decides at once, otherwise the alarm is set
   and user_input_func is called *)
RunStage(output) ==
    /\ wf.status = "running"
    /\ wf.at = "run_stage"
    /\ wf' = IF wf.interactive
             THEN [wf EXCEPT !.stage_output = output,
                             !.answered = FALSE,
                             !.alarm = TRUE,
                             !.at = "await"]
             ELSE [wf EXCEPT !.stage_output = output,
                             !.answered = FALSE,
                             !.decision = AutoDecision(wf.default_strategy,
                                                       wf.current_stage,
                                                       output),
                             !.at = "decided"]
    /\ UNCHANGED indexVars

(* user_input_func returns an answer; signal.alarm(0) has not run yet *)
UserAnswers(answer) ==
    /\ wf.status = "running"
    /\ wf.at = "await"
    /\ wf' = [wf EXCEPT !.answer = answer, !.answered = TRUE,
                        !.at = "answered"]
    /\ UNCHANGED indexVars

(* Ctrl-C while user_input_func waits: except KeyboardInterrupt returns
   REJECT; the alarm is not cancelled *)
UserInterrupts ==
    /\ wf.status = "running"
    /\ wf.at = "await"
    /\ wf' = [wf EXCEPT !.decision = "reject", !.at = "decided"]
    /\ UNCHANGED indexVars

(* signal.alarm(0), and the answer is turned into a Decision *)
CancelAlarm ==
    /\ wf.status = "running"
    /\ wf.at = "answered"
    /\ wf' = [wf EXCEPT !.alarm = FALSE,
                        !.decision = AnswerDecision(wf.default_strategy,
                                                    wf.current_stage,
                                                    wf.answer),
                        !.at = "decided"]
    /\ UNCHANGED indexVars

(* SIGALRM: timeout_handler raises TimeoutException in whatever the main
   thread is executing.  Inside the try of _get_user_decision_with_timeout,
   which lasts until signal.alarm(0) has run, it is caught and TIMEOUT is
   returned; after the try was left with the alarm pending it leaves
   run_full_workflow *)
AlarmFires ==
    /\ wf.status = "running"
    /\ wf.alarm
    /\ wf' = IF wf.at \in {"await", "answered"}
             THEN [wf EXCEPT !.alarm = FALSE, !.decision = "timeout",
                             !.at = "decided"]
             ELSE [wf EXCEPT !.alarm = FALSE, !.status = "aborted",
                             !.error = "TimeoutException", !.at = "none"]
    /\ UNCHANGED indexVars

(* does run_stage store the output and return APPROVE *)
Approves(strategy, stage, decision) ==
    \/ decision = "approve"
    \/ decision = "timeout" /\ DefaultAction(strategy, stage) = "approve"

(* a loop that leaves out the second checkpoint *)
NextStageSkipping(stage) ==
    IF stage = Stages[1] THEN Stages[3] ELSE "COMPLETE"

(* the stage after an approved one, and COMPLETE after the last *)
NextStage(stage) ==
    IF stage = Stages[1] THEN Stages[2]
    ELSE IF stage = Stages[2] THEN Stages[3]
    ELSE "COMPLETE"

(* run_stage from "record the decision" to its return, and the loop of
   run_full_workflow on what it returned: REJECT raises RuntimeError; MODIFY,
   or a timeout whose default is not APPROVE, goes back into the same stage,
   in interactive mode after input(); APPROVE stores the output in artifacts,
   appends to stage_history and goes on to the next stage or to COMPLETE *)
Decide ==
    /\ wf.status = "running"
    /\ wf.at = "decided"
    /\ LET stage == wf.current_stage
           d == wf.decision
           rec == [wf EXCEPT !.user_decisions[stage] =
                                 [decision |-> d,
                                  timeout_used |-> (d = "timeout")]]
       IN  wf' =
             IF d = "reject"
             THEN [rec EXCEPT !.status = "aborted", !.error = "RuntimeError",
                              !.returned = "reject", !.at = "none"]
             ELSE IF Approves(wf.default_strategy, stage, d)
             THEN [rec EXCEPT !.artifacts = @ \cup {stage},
                              !.stage_history = Append(@, stage),
                              !.returned = "approve",
                              !.current_stage = NextStage(stage),
                              !.status = IF NextStage(stage) = "COMPLETE"
                                         THEN "complete" ELSE "running",
                              !.at = IF NextStage(stage) = "COMPLETE"
                                     THEN "none" ELSE "run_stage"]
             ELSE [rec EXCEPT !.returned = "modify",
                              !.at = IF wf.interactive THEN "enter"
                                     ELSE "run_stage"]
    /\ UNCHANGED indexVars

(* input("...") of the MODIFY branch returns, or standard input is at its
   end and EOFError leaves run_full_workflow *)
PressEnter(eof) ==
    /\ wf.status = "running"
    /\ wf.at = "enter"
    /\ wf' = IF eof
             THEN [wf EXCEPT !.status = "aborted", !.error = "EOFError",
                             !.at = "none"]
             ELSE [wf EXCEPT !.at = "run_stage"]
    /\ UNCHANGED indexVars

NextWorkflow ==
    \/ \E interactive \in BOOLEAN : RunFullWorkflow(interactive)
    \/ \E output \in Outputs : RunStage(output)
    \/ \E answer \in Answers : UserAnswers(answer)
    \/ UserInterrupts
    \/ CancelAlarm
    \/ AlarmFires
    \/ Decide
    \/ \E eof \in BOOLEAN : PressEnter(eof)

Workflow == InitWorkflow /\ [][NextWorkflow]_vars

(* every step of the orchestrator that can be taken is taken in the end:
   the interpreter runs, callbacks return, and the user or the alarm ends
   every wait *)
WorkflowFair == Workflow /\ WF_vars(NextWorkflow)

(* ------------------------------- claims -------------------------------- *)
FingerprintValues(t) == {r.fingerprint : r \in t.fingerprints}
PathsOf(t, f) == {r.file_path : r \in LocationsOf(t, f)}
Called(w) == pc[w] = "done" /\ arg[w].file # NoFile

(* C1: after any sequential series of index_video calls the Content Analyzer
   has been invoked at most once per distinct Fingerprint in the Store. *)
C1_AnalysesBounded ==
    AllIdle => Len(analyzerLog) <= Cardinality(FingerprintValues(Committed))

(* C2: when all workers index, with analysis on, copies of one content that
   the Store had not seen when they started, the Content Analyzer has been
   invoked exactly once in total when they are all done. *)
C2_AnalyzedOnce ==
    (/\ \A w \in Workers : Called(w) /\ arg[w].analyze /\ pre[w] = EmptyStore
     /\ \A v, w \in Workers : arg[v].file.bytes = arg[w].file.bytes
     /\ \A v, w \in Workers : v # w => arg[v].path # arg[w].path)
    => Len(analyzerLog) = 1

(* C3: two workers index two different paths holding the same new content,
   and both found the Fingerprint absent.  When both are done, neither call
   raised, both returned the same Fingerprint and both paths are Locations
   of it. *)
C3_LoserAttaches ==
    \A v, w \in Workers :
        (/\ v # w
         /\ Called(v) /\ Called(w)
         /\ arg[v].path # arg[w].path
         /\ arg[v].file = arg[w].file
         /\ pre[v] = EmptyStore /\ pre[w] = EmptyStore
         /\ existing[v] = None /\ existing[w] = None)
        => /\ IsFingerprint(ret[v])
           /\ ret[w] = ret[v]
           /\ {arg[v].path, arg[w].path} \subseteq PathsOf(Committed, ret[v])

(* C4: a step that commits a fingerprint row the Store did not have commits
   a Location row and the ContentIndex row of that Fingerprint with it, and
   a ContentIndex row never appears without its fingerprint row. *)
C4_AtomicUnit ==
    [][/\ \A r \in fingerprints' \ fingerprints :
              /\ LocationsOf(Committed', r.fingerprint) # {}
              /\ ContentKeyTaken(Committed', r.fingerprint)
       /\ \A c \in content_index' \ content_index :
              c.fingerprint \in FingerprintValues(Committed')]_vars

(* C5: in every reachable Store state each file path is in at most one
   Location row. *)
C5_PathUnique ==
    \A r1, r2 \in file_locations : r1.file_path = r2.file_path => r1 = r2

(* a finished call on a path that was bound to a Fingerprint other than the
   one the call computed *)
Reindexed(w) ==
    /\ Called(w)
    /\ BoundTo(pre[w], arg[w].path) # {}
    /\ fp[w].fingerprint \notin BoundTo(pre[w], arg[w].path)

C5_Witness ==
    /\ Reindexed(1)
    /\ Cardinality({r \in file_locations : r.file_path = arg[1].path}) = 1

(* C6: after a path bound to F1 is re-indexed with content that yields
   F2 # F1, the path is bound to F2 only and F1 has one Location fewer. *)
C6_Rebind ==
    Reindexed(1) =>
        /\ BoundTo(Committed, arg[1].path) = {fp[1].fingerprint}
        /\ \A f1 \in BoundTo(pre[1], arg[1].path) :
               LocationCount(Committed, f1) = LocationCount(pre[1], f1) - 1

(* C7: re-indexing a path that is bound to a different Fingerprint ends
   normally: a Fingerprint is returned, no exception leaves the call. *)
C7_RebindNotFatal ==
    Reindexed(1) => IsFingerprint(ret[1])

(* the state a re-index of the whole tree leaves when no content changed:
   every file has its Location, bound to the Fingerprint of its content *)
TreeIndexed ==
    \A p \in Paths :
        fs[p] # NoFile =>
            BoundTo(Committed, p) = {GenerateFingerprint(impl, fs[p]).fingerprint}

(* C8: the same unchanged path is indexed twice in a row.  Both calls return
   the same Fingerprint, the path has exactly one Location row, and the
   second call leaves fingerprints, file_locations and content_index as they
   were. *)
C8_Idempotent ==
    (/\ Called(1)
     /\ last[1].path = arg[1].path
     /\ last[1].file = arg[1].file)
    => /\ IsFingerprint(ret[1])
       /\ ret[1] = last[1].ret
       /\ Cardinality({r \in file_locations :
                          r.file_path = arg[1].path}) = 1
       /\ Committed = pre[1]

(* C9: the same bytes are indexed at one path of an empty Store and then at
   a second path.  Every call returns the one Fingerprint of the Store, and
   its Locations are exactly the paths indexed. *)
C9_OneFingerprint ==
    /\ (Called(1) /\ pre[1] = EmptyStore)
       => /\ IsFingerprint(ret[1])
          /\ FingerprintValues(Committed) = {ret[1]}
          /\ PathsOf(Committed, ret[1]) = {arg[1].path}
          /\ LocationCount(Committed, ret[1]) = 1
    /\ (/\ Called(1)
        /\ last[1].file # NoFile
        /\ last[1].pre = EmptyStore
        /\ last[1].path # arg[1].path
        /\ last[1].file.bytes = arg[1].file.bytes)
       => /\ IsFingerprint(ret[1])
          /\ ret[1] = last[1].ret
          /\ FingerprintValues(Committed) = {ret[1]}
          /\ PathsOf(Committed, ret[1]) = {last[1].path, arg[1].path}
          /\ LocationCount(Committed, ret[1]) = 2

(* C10: a file whose content is also at p2 was renamed from p1 to p3 and the
   tree is indexed again.  p1 is no Location of the Fingerprint, p3 is one,
   and the Fingerprint has as many Locations as there are files with that
   content. *)
C10_RenameMoves ==
    \A p1, p2, p3 \in Paths :
        (/\ AllIdle /\ TreeIndexed
         /\ Cardinality({p1, p2, p3}) = 3
         /\ fs[p1] = NoFile /\ fs[p2] # NoFile /\ fs[p3] # NoFile
         /\ BoundTo(Committed, p2) = BoundTo(Committed, p3))
        => \A f \in BoundTo(Committed, p2) :
               /\ p1 \notin PathsOf(Committed, f)
               /\ p3 \in PathsOf(Committed, f)
               /\ LocationCount(Committed, f) =
                      Cardinality({p \in Paths :
                          /\ fs[p] # NoFile
                          /\ GenerateFingerprint(impl, fs[p]).fingerprint = f})

(* C11: the Content Analyzer failed while index_video was processing a new
   Fingerprint.  The Fingerprint and its Location are stored all the same,
   with a ContentIndex whose tag list is empty. *)
C11_FailedAnalysisKept ==
    (Called(1) /\ ret[1] = Raised("AnalysisFailure"))
    => /\ fp[1].fingerprint \in FingerprintValues(Committed)
       /\ arg[1].path \in PathsOf(Committed, fp[1].fingerprint)
       /\ \E c \in content_index :
              c.fingerprint = fp[1].fingerprint /\ c.search_tags = <<>>

(* C12: every Fingerprint of the Store has at least one Location. *)
C12_HasLocation ==
    \A r \in fingerprints : LocationsOf(Committed, r.fingerprint) # {}

(* C13: every Fingerprint of the Store has exactly one ContentIndex. *)
C13_OneContentIndex ==
    \A r \in fingerprints :
        Cardinality({c \in content_index :
                        c.fingerprint = r.fingerprint}) = 1

(* C14: a step that writes the ContentIndex of a Fingerprint that has one
   keeps every tag the ContentIndex had. *)
C14_MergeOnly ==
    [][\A c \in content_index :
          \E d \in content_index' :
              /\ d.fingerprint = c.fingerprint
              /\ \A i \in DOMAIN c.search_tags :
                     \E j \in DOMAIN d.search_tags :
                         d.search_tags[j] = c.search_tags[i]]_vars

(* C15: (tag, fingerprint) is a row of search_index exactly when tag is one
   of the search_tags of the fingerprint's ContentIndex. *)
C15_SearchIndexConsistent ==
    /\ \A e \in search_index :
           \E c \in content_index :
               /\ c.fingerprint = e.fingerprint
               /\ \E i \in DOMAIN c.search_tags : c.search_tags[i] = e.tag
    /\ \A c \in content_index :
           \A i \in DOMAIN c.search_tags :
               \E e \in search_index :
                   e.fingerprint = c.fingerprint /\ e.tag = c.search_tags[i]

(* C16: find_duplicates returns exactly the Fingerprints with two or more
   Locations, each once, with count the number of Locations and paths the
   Location paths. *)
C16_DuplicatesExact ==
    LET dups == FindDuplicates(Committed)
    IN  /\ {d.fingerprint : d \in dups} =
               {f \in FingerprintValues(Committed) :
                   LocationCount(Committed, f) >= 2}
        /\ \A d1, d2 \in dups : d1.fingerprint = d2.fingerprint => d1 = d2
        /\ \A d \in dups :
               /\ d.count = LocationCount(Committed, d.fingerprint)
               /\ Len(d.paths) = d.count
               /\ {d.paths[i] : i \in DOMAIN d.paths} =
                      {PathName(p) : p \in PathsOf(Committed, d.fingerprint)}

RECURSIVE SumSizes(_)
SumSizes(rows) ==
    IF rows = {} THEN 0
    ELSE LET r == CHOOSE x \in rows : TRUE
         IN  r.file_size + SumSizes(rows \ {r})

MaxSizeOf(rows) ==
    (CHOOSE r \in rows : \A x \in rows : x.file_size <= r.file_size).file_size

(* C17: for every duplicate group the report gives a figure for, the
   reclaimable space reported is the sum of the sizes of the group's
   Locations minus the largest of them. *)
C17_Reclaimable ==
    \A d \in FindDuplicates(Committed) :
        LET rows == LocationsOf(Committed, d.fingerprint)
            saved == SpaceSaved(d)
        IN  Len(saved) = 2
            => saved[1] = (SumSizes(rows) - MaxSizeOf(rows)) * saved[2]

(* the search_tags of a fingerprint's ContentIndex *)
SearchTagsOf(f) ==
    UNION {{c.search_tags[i] : i \in DOMAIN c.search_tags} :
              c \in {x \in content_index : x.fingerprint = f}}

(* C18: every Fingerprint search_by_tag(q) returns has a search tag that
   matches q, the case of letters ignored. *)
C18_OnlyMatching ==
    \A q \in Queries :
        \A res \in SearchByTag(q) :
            \A i \in DOMAIN res :
                \E tag \in SearchTagsOf(res[i].fingerprint) : Like(tag, q)

(* the accumulated weight of a fingerprint for a query: the sum of the
   weights (1.0 each) of its index entries the query selects *)
AccumulatedWeight(f, q) ==
    Cardinality({e \in SearchRowsFor(q) : e.fingerprint = f})

(* C19: every result of search_by_tag carries its Fingerprint's accumulated
   weight, and no result comes before one of larger accumulated weight. *)
C19_RankedByWeight ==
    \A q \in Queries :
        \A res \in SearchByTag(q) :
            /\ \A i \in DOMAIN res :
                   res[i].search_weight =
                       AccumulatedWeight(res[i].fingerprint, q)
            /\ \A i, j \in DOMAIN res :
                   i < j => AccumulatedWeight(res[i].fingerprint, q)
                            >= AccumulatedWeight(res[j].fingerprint, q)

(* index_video(p) of ImprovedFingerprintSystem, called on its own on Store t,
   does not raise: the content is known (existing branch, which catches the
   IntegrityError) or the path has no Location yet *)
IndexableAlone(t, p) ==
    \/ FindByContentHash(t, GenerateFingerprint(impl, fs[p]).content_hash) # {}
    \/ ~PathTaken(t, p)

(* the files of the scan whose index_video call raised *)
Failed == {i \in DOMAIN scan.outcome : scan.outcome[i].kind = "error"}

(* the state a scan with a failing file must end in: the scan ran to its
   end, every failure was counted in errors, and every file after the first
   failing one that is big enough and indexable on its own was indexed, with
   its Location stored when the path had none *)
ScanIsolated ==
    /\ scan.state = "done"
    /\ scan.errors = scan.errors_before + Cardinality(Failed)
    /\ \A i \in DOMAIN scan.files :
           LET p == scan.files[i] IN
           (/\ \E j \in Failed : j < i
            /\ Len(fs[p].bytes) >= SmallFile
            /\ IndexableAlone(scan.before, p))
           => /\ i \in DOMAIN scan.outcome
              /\ scan.outcome[i].kind = "indexed"
              /\ IsFingerprint(scan.outcome[i].ret)
              /\ ~PathTaken(scan.before, p)
                     => p \in PathsOf(Committed, scan.outcome[i].ret)

(* C20: when a scan in which indexing some file failed comes to its end, the
   failure was caught and counted in errors, every remaining file was still
   indexed, and the other files have the Store records they would have
   without the failing file. *)
C20_ScanIsolation ==
    [][(/\ scan.state = "running"
        /\ scan'.state \in {"done", "aborted"}
        /\ Failed' # {})
       => ScanIsolated']_vars

(* C21: two index_video calls have run generate_fingerprint on files with the
   same bytes (and so the same probe result): the two Fingerprints are the
   same, whatever the names, paths, modes and timestamps of the files. *)
C21_ContentOnly ==
    \A v, w \in Workers :
        (/\ pc[v] # "idle" /\ pc[w] # "idle"
         /\ arg[v].file # NoFile /\ arg[w].file # NoFile
         /\ arg[v].file.bytes = arg[w].file.bytes)
        => fp[v].fingerprint = fp[w].fingerprint

(* C22: a path is indexed, its bytes are changed, and it is indexed again:
   the second call does not return the Fingerprint of the first. *)
C22_ChangeDetected ==
    (/\ Called(1)
     /\ last[1].file # NoFile
     /\ last[1].path = arg[1].path
     /\ last[1].file.bytes # arg[1].file.bytes
     /\ IsFingerprint(last[1].ret)
     /\ IsFingerprint(ret[1]))
    => ret[1] # last[1].ret

(* C23: an index_video call on a file that cannot be read ends without a
   Fingerprint and leaves the Store as it was; and when the scan takes the
   result of such a call, it records the failure in errors and goes on. *)
C23_UnreadableSkipped ==
    [][/\ (/\ ~Idle(1)
           /\ pc'[1] = "done"
           /\ arg[1].path \in unreadable)
          => (~IsFingerprint(ret'[1]) /\ Committed' = pre[1])
       /\ (/\ scan.state = "running"
           /\ Len(scan'.outcome) = Len(scan.outcome) + 1
           /\ scan.files[Len(scan'.outcome)] \in unreadable
           /\ Len(fs[scan.files[Len(scan'.outcome)]].bytes) >= SmallFile)
          => /\ scan'.outcome[Len(scan'.outcome)].kind = "error"
             /\ scan'.errors = scan.errors + 1
             /\ scan'.state # "aborted"]_vars

(* C24: find_by_path of a path string gives the Fingerprint whose Location
   has exactly that path string, and None when no Location has it. *)
C24_PointLookup ==
    \A p \in Paths :
        \A f \in FindByPath(Committed, PathName(p)) :
            IF PathTaken(Committed, p)
            THEN f \in BoundTo(Committed, p)
            ELSE f = None

(* C25: run_full_workflow runs PLANNING, MATERIAL, RENDER in this order:
   current_stage moves only from a stage to the one after it, and only in
   the step in which run_stage ends with APPROVE (an approval, or a timeout
   whose default action is APPROVE); COMPLETE is reached only with all three
   stages approved, in order; a MODIFY keeps the workflow in the same stage
   with nothing stored; a REJECT aborts, and an aborted workflow takes no
   further step; artifacts gains exactly the approved stage's output, in
   the approving step and in no other. *)
C25_StageOrder ==
    [][LET approved == /\ wf.status = "running"
                       /\ wf.at = "decided"
                       /\ wf'.error = "none"
                       /\ \/ wf.decision = "approve"
                          \/ /\ wf.decision = "timeout"
                             /\ DefaultAction(wf.default_strategy,
                                              wf.current_stage) = "approve"
           modified == /\ wf.status = "running"
                       /\ wf.at = "decided"
                       /\ wf'.error = "none"
                       /\ \/ wf.decision = "modify"
                          \/ /\ wf.decision = "timeout"
                             /\ DefaultAction(wf.default_strategy,
                                              wf.current_stage) # "approve"
           rejected == /\ wf.status = "running"
                       /\ wf.at = "decided"
                       /\ wf.decision = "reject"
       IN  /\ wf'.current_stage # wf.current_stage
                => /\ approved
                   /\ <<wf.current_stage, wf'.current_stage>>
                          \in {<<"PLANNING", "MATERIAL">>,
                               <<"MATERIAL", "RENDER">>,
                               <<"RENDER", "COMPLETE">>}
           /\ approved
                => /\ wf'.current_stage # wf.current_stage
                   /\ wf'.artifacts = wf.artifacts \cup {wf.current_stage}
                   /\ wf'.stage_history = Append(wf.stage_history,
                                                 wf.current_stage)
           /\ ~approved => wf'.artifacts = wf.artifacts
           /\ modified
                => /\ wf'.status = "running"
                   /\ wf'.current_stage = wf.current_stage
                   /\ wf'.at \in {"run_stage", "enter"}
           /\ rejected => wf'.status = "aborted"
           /\ wf.status = "aborted" => wf' = wf
           /\ wf'.current_stage = "COMPLETE"
                => /\ wf'.stage_history = Stages
                   /\ wf'.artifacts = StageSet
           /\ wf'.status = "complete" <=> wf'.current_stage = "COMPLETE"]_vars

(* C25 witness: an interactive workflow is complete after a MODIFY sent it
   back into a stage: all three stages are in the history, in order, and
   the three outputs are stored *)
C25_Witness ==
    /\ wf.status = "complete"
    /\ wf.interactive
    /\ wf.current_stage = "COMPLETE"
    /\ wf.stage_history = Stages
    /\ wf.artifacts = StageSet
    /\ wf.returned = "approve"
    /\ \A s \in StageSet : wf.user_decisions[s].decision = "approve"
    /\ wf.default_strategy = "conservative"

(* C26: when the checkpoint times out, the default action is applied (the
   workflow goes on to the next stage with the output stored when it is
   APPROVE, and stays in the stage otherwise) and the decision recorded for
   the stage has timeout_used; and a decision is recorded as a timeout only
   when user_input_func had not returned an answer. *)
C26_TimeoutBreaker ==
    [][(wf.status = "running" /\ wf.at = "decided" /\ wf'.at # "decided"
        /\ wf'.error # "TimeoutException")
       => LET stage == wf.current_stage
              recorded == wf'.user_decisions[stage]
          IN  /\ recorded.timeout_used => ~wf.answered
              /\ wf.decision = "timeout"
                   => /\ recorded.timeout_used
                      /\ IF DefaultAction(wf.default_strategy, stage)
                              = "approve"
                         THEN /\ wf'.current_stage # stage
                              /\ stage \in wf'.artifacts
                         ELSE /\ wf'.current_stage = stage
                              /\ wf'.status = "running"]_vars

(* C27: a workflow running in automatic mode ends: it becomes complete or
   aborts. *)
C27_AutoTerminates ==
    (wf.status = "running" /\ ~wf.interactive)
        ~> (wf.status \in {"complete", "aborted"})

(* C28: after every scan of the FingerprintScanner that found files and ran
   to its end, the second and later ones on the same scanner included, every
   file found was counted once: processed + skipped + errors = total_files. *)
C28_CountersPartition ==
    (impl = "improved" /\ scan.state = "done" /\ scan.files # <<>>)
        => scan.processed + scan.skipped + scan.errors = scan.total_files

(* C29: in every state of the store, every row of file_locations has the
   fingerprint of a row of fingerprints. *)
C29_NoOrphanLocation ==
    \A l \in Committed.file_locations :
        \E f \in Committed.fingerprints : f.fingerprint = l.fingerprint

(* C29 witness: an index_video call has failed part-way, with IntegrityError
   after its INSERT INTO fingerprints, on a path that has a Location: the
   fingerprint it generated has no row, and the path's row has one *)
C29_Witness ==
    \E w \in Workers :
        /\ pc[w] = "done"
        /\ ret[w] = Raised("IntegrityError")
        /\ existing[w] = None
        /\ PathTaken(Committed, arg[w].path)
        /\ ~FingerprintKeyTaken(Committed, fp[w])
        /\ C29_NoOrphanLocation

(* C30: in ImprovedFingerprintSystem no two rows of fingerprints have the
   same content_hash, so that the rows find_duplicates groups under one
   content_hash are those of one Fingerprint. *)
C30_OneRowPerContentHash ==
    impl = "improved"
        => \A r1, r2 \in fingerprints :
               r1.content_hash = r2.content_hash => r1 = r2

====
